---------------------------- MODULE Spec2Model ----------------------------
(***************************************************************************)
(* The stage 2 online chat messenger server                                *)
(* (src/OnlineChatMessanger/stage 2/server.py): the admission handler      *)
(* threads (handle_tcp_connection, one per accepted stream connection)     *)
(* and the datagram relay loop (udp_chat_handler), which share the         *)
(* module-level dictionary chat_rooms without any lock.                    *)
(*                                                                         *)
(* Bytes objects are sequences of numbers 0..255, Python str objects are   *)
(* sequences of code points.  A Python list is an object with identity:    *)
(* heap[id] is the content of list object id, and chat_rooms maps a room   *)
(* name to the id of its member list.  Threads are interleaved at          *)
(* statement granularity.                                                  *)
(***************************************************************************)
EXTENDS Integers, Sequences, FiniteSets, TLC

(* ------------------------------ bounds -------------------------------- *)

\* Number of stream connections the accept loop takes.
MaxConns == 3

\* Number of stream connections it takes while the relay loop runs.
MaxChatConns == 2

\* Number of datagrams the relay loop receives.
MaxDatagrams == 2

\* Number of lines the user of the client types.
MaxInputs == 2

\* Number of datagrams that arrive at the client's socket.
MaxArrivals == 2

(* ----------------------------- constants ------------------------------ *)

BUFFER_SIZE == 4096

Conns == 1..MaxConns

\* Peer IP strings "10.0.0.1" and "10.0.0.2".
IP1 == <<49, 48, 46, 48, 46, 48, 46, 49>>
IP2 == <<49, 48, 46, 48, 46, 48, 46, 50>>
IPs == {IP1, IP2}

\* Room names on the wire: "a" and the two-byte UTF-8 encoding of U+00E9.
RoomNameBytes == { <<97>>, <<195, 169>> }

\* Chat messages on the wire: "hi".
MessageBytes == { <<104, 105>> }

\* A token no admission mints: "xxxxx".
BogusToken == <<120, 120, 120, 120, 120>>

(* ------------------------- bytes and strings -------------------------- *)

Min(a, b) == IF a < b THEN a ELSE b

\* Python's s[a:b] for 0 <= a <= b (indices past the end are clamped).
Slice(s, a, b) == SubSeq(s, a + 1, Min(b, Len(s)))

\* Python's s[a:].
SliceFrom(s, a) == SubSeq(s, a + 1, Len(s))

IsCont(b) == b \in 128..191

\* Number of bytes of the well-formed UTF-8 sequence at the head of bs,
\* 0 when the head is not well-formed (bytes.decode('utf-8') raises).
Utf8HeadLen(bs) ==
    LET b1 == bs[1]
        n  == Len(bs)
    IN  IF b1 < 128 THEN 1
        ELSE IF b1 \in 194..223
            THEN IF n >= 2 /\ IsCont(bs[2]) THEN 2 ELSE 0
        ELSE IF b1 \in 224..239
            THEN IF /\ n >= 3
                    /\ IsCont(bs[2])
                    /\ IsCont(bs[3])
                    /\ (b1 = 224 => bs[2] >= 160)
                    /\ (b1 = 237 => bs[2] <= 159)
                 THEN 3 ELSE 0
        ELSE IF b1 \in 240..244
            THEN IF /\ n >= 4
                    /\ IsCont(bs[2])
                    /\ IsCont(bs[3])
                    /\ IsCont(bs[4])
                    /\ (b1 = 240 => bs[2] >= 144)
                    /\ (b1 = 244 => bs[2] <= 143)
                 THEN 4 ELSE 0
        ELSE 0

\* The code point of the well-formed UTF-8 sequence of k bytes at the head.
Utf8HeadPoint(bs, k) ==
    CASE k = 1 -> bs[1]
      [] k = 2 -> (bs[1] - 192) * 64 + (bs[2] - 128)
      [] k = 3 -> (bs[1] - 224) * 4096 + (bs[2] - 128) * 64 + (bs[3] - 128)
      [] OTHER -> (bs[1] - 240) * 262144 + (bs[2] - 128) * 4096
                    + (bs[3] - 128) * 64 + (bs[4] - 128)

\* Whether bs.decode('utf-8') succeeds.
RECURSIVE Utf8Valid(_)
Utf8Valid(bs) ==
    IF bs = <<>> THEN TRUE
    ELSE LET k == Utf8HeadLen(bs)
         IN  k > 0 /\ Utf8Valid(SubSeq(bs, k + 1, Len(bs)))

\* bs.decode('utf-8') of a valid bs: the str, as its code points.
RECURSIVE Utf8Decode(_)
Utf8Decode(bs) ==
    IF bs = <<>> THEN <<>>
    ELSE LET k == Utf8HeadLen(bs)
         IN  <<Utf8HeadPoint(bs, k)>> \o Utf8Decode(SubSeq(bs, k + 1, Len(bs)))

\* chr(cp).encode('utf-8').
Utf8EncodePoint(cp) ==
    IF cp < 128 THEN <<cp>>
    ELSE IF cp < 2048 THEN <<192 + (cp \div 64), 128 + (cp % 64)>>
    ELSE IF cp < 65536
        THEN <<224 + (cp \div 4096), 128 + ((cp \div 64) % 64), 128 + (cp % 64)>>
    ELSE <<240 + (cp \div 262144), 128 + ((cp \div 4096) % 64),
           128 + ((cp \div 64) % 64), 128 + (cp % 64)>>

\* s.encode('utf-8').
RECURSIVE Utf8Encode(_)
Utf8Encode(s) ==
    IF s = <<>> THEN <<>>
    ELSE Utf8EncodePoint(s[1]) \o Utf8Encode(Tail(s))

\* str(n) of a natural number, as its code points.
RECURSIVE DecimalStr(_)
DecimalStr(n) ==
    IF n < 10 THEN <<48 + n>>
    ELSE DecimalStr(n \div 10) \o <<48 + (n % 10)>>

\* "host_", "guest_", "_".
StrHost == <<104, 111, 115, 116, 95>>
StrGuest == <<103, 117, 101, 115, 116, 95>>
StrUnderscore == <<95>>

\* The reply texts of the admission handler.
RoomCreated == <<82, 111, 111, 109, 32, 99, 114, 101, 97, 116, 101, 100, 32>>
JoinedRoom == <<74, 111, 105, 110, 101, 100, 32, 114, 111, 111, 109, 32>>
\* Refusals that read as the success replies.
RefusedAsCreated == RoomCreated
RefusedAsJoined == JoinedRoom

RoomAlreadyExists ==
    <<82, 111, 111, 109, 32, 97, 108, 114, 101, 97, 100, 121, 32,
      101, 120, 105, 115, 116, 115>>
RoomNotFound ==
    <<82, 111, 111, 109, 32, 110, 111, 116, 32, 102, 111, 117, 110, 100>>

(* ------------------------------ tokens -------------------------------- *)

\* A CREATE that mints its token with a space after the prefix.
HostTokenSpaced(a) == Utf8Encode(<<104, 111, 115, 116, 32>> \o a[1])

\* f"host_{addr[0]}".encode('utf-8')
HostToken(a) == Utf8Encode(StrHost \o a[1])

\* A JOIN that mints its token with the host's prefix.
GuestTokenHostPrefix(a, n) ==
    Utf8Encode(StrHost \o a[1] \o StrUnderscore \o DecimalStr(n))

\* A JOIN that numbers its token with the peer's stream port.
GuestTokenWithPort(a, n) ==
    Utf8Encode(StrGuest \o a[1] \o StrUnderscore \o DecimalStr(a[2]))

\* f"guest_{addr[0]}_{len(chat_rooms[room_name])}".encode('utf-8')
GuestToken(a, n) == Utf8Encode(StrGuest \o a[1] \o StrUnderscore \o DecimalStr(n))

\* A member's address that has not been set.
Unset == << >>

\* An admission that leaves the datagram address of the new member unset.
MemberEntryUnset(tok, a) == <<tok, Unset>>

\* The tuple (token, addr) a handler appends to a room's member list.
MemberEntry(tok, a) == <<tok, a>>

(* ------------------------------ frames -------------------------------- *)

\* The admission frame the client builds (client.py, tcp_connect).
AdmissionFrame(nameBytes, op) == <<Len(nameBytes), op, 0>> \o nameBytes

\* The chat frame the client builds (client.py, udp_chat).
ChatFrame(nameBytes, tok, msg) ==
    <<Len(nameBytes), Len(tok)>> \o nameBytes \o tok \o msg

\* What a stream connection delivers to recv: the frames of a client for
\* operation 1, 2 or 3, and frames no client of this repository builds.
AdmissionData ==
    { AdmissionFrame(n, op) : n \in RoomNameBytes, op \in {1, 2} }
      \cup { AdmissionFrame(<<97>>, 3) }

\* The frames of the clients that chat: CREATE and JOIN of room "a", and
\* CREATE of the room named U+00E9.
ChatAdmissionData ==
    { AdmissionFrame(<<97>>, op) : op \in {1, 2} }
      \cup { AdmissionFrame(<<195, 169>>, 1) }

\* What a stream connection delivers to recv when clients do not keep to
\* the admission frame: a CREATE, a JOIN and an operation 3 for room "a",
\* nothing before the peer closes (recv returns b''), two bytes only, a room
\* name that is not UTF-8, CREATE and JOIN with room_name_len 0, a name one
\* byte shorter than room_name_len announces, and a byte after the name.
ProtocolData ==
    { AdmissionFrame(<<97>>, op) : op \in {1, 2, 3} }
      \cup { << >>, <<1, 1>>, <<1, 1, 0, 255>>, <<0, 1, 0>>, <<0, 2, 0>>,
              <<2, 1, 0, 97>>, <<1, 1, 0, 97, 98>> }

\* The environment of the admission service: how many connections the
\* accept loop takes, the peers' IPs, what a connection delivers, whether
\* sendall succeeds (TRUE) or raises (FALSE), and whether a client may
\* connect and send nothing while keeping the connection open (silent).
AdmissionEnv ==
    [conns |-> MaxConns, ips |-> IPs, frames |-> AdmissionData,
     sendall |-> BOOLEAN, silent |-> {FALSE}]

\* The environment of clients that do not keep to the protocol.
ProtocolEnv ==
    [conns |-> MaxConns, ips |-> {IP1}, frames |-> ProtocolData,
     sendall |-> {TRUE}, silent |-> BOOLEAN]

\* The environment of a chat: clients behind one IP, which stay
\* connected until they have their reply.
ChatEnv ==
    [conns |-> MaxChatConns, ips |-> {IP1}, frames |-> ChatAdmissionData,
     sendall |-> {TRUE}, silent |-> {FALSE}]


(* ------------------------------- state -------------------------------- *)

VARIABLES
    chat_rooms,      \* room name (str) -> id of the room's member list
    heap,            \* heap[id]: the content of list object id
    pc,              \* per connection: where its handler thread stands
    peer,            \* per connection: addr, the (ip, port) accept returned
    data,            \* per connection: what conn.recv returned
    room_name,       \* per connection: the handler's local room_name
    operation_code,  \* per connection: the handler's local operation_code
    token,           \* per connection: the handler's local token
    reply,           \* per connection: what sendall wrote to the connection
    upc,             \* the relay loop: where it stands
    udp_data,        \* the relay loop: data of the last recvfrom
    udp_addr,        \* the relay loop: addr of the last recvfrom
    members,         \* the relay loop: id of the list it iterates (0: none)
    idx,             \* the relay loop: index of the list iterator
    packet,          \* the relay loop: the packet it built
    outbox,          \* the sendto calls that returned, for the last datagram
                     \* received
    nDatagrams,      \* number of datagrams received so far
    errors,          \* the relay loop: the exceptions it caught and printed
                     \* since its last recvfrom, as (where, list index)
    shutdown_event,  \* the threading.Event the loops test
    main,            \* the main thread: where start_server stands
    exit_code,       \* << >>, or <<n>> once sys.exit(n) was called
    client           \* one client process (client.py), as a record

registry == <<chat_rooms, heap>>
handlers == <<pc, peer, data, room_name, operation_code, token, reply>>
relay == <<upc, udp_data, udp_addr, members, idx, packet, outbox, nDatagrams,
           errors>>
process == <<shutdown_event, main, exit_code>>
vars == <<chat_rooms, heap, pc, peer, data, room_name, operation_code, token,
          reply, upc, udp_data, udp_addr, members, idx, packet, outbox,
          nDatagrams, errors, shutdown_event, main, exit_code, client>>

\* chat_rooms[room_name], the member list as a sequence of (token, addr).
Members(r) == heap[chat_rooms[r]]

\* The dictionary after chat_rooms[r] = <list object id>.
DictSet(d, r, id) == [k \in DOMAIN d \cup {r} |-> IF k = r THEN id ELSE d[k]]

\* The heap after list object id has had entry e appended.
ListAppend(h, id, e) == [h EXCEPT ![id] = Append(@, e)]

\* No client process is modelled: the clients are the environment.
NoClient ==
    [reader |-> "none", writer |-> "none", token |-> << >>, room_name |-> << >>,
     shutdown_event |-> FALSE, cancelled |-> FALSE, udp_sock |-> "none",
     data |-> << >>, message |-> << >>, shown |-> << >>, sent |-> << >>,
     errors |-> 0, nInputs |-> 0, nArrivals |-> 0]

\* The server in its accept loop, the relay thread in its receive loop.
Init ==
    /\ errors = {}
    /\ shutdown_event = FALSE
    /\ main = "accept"
    /\ exit_code = << >>
    /\ client = NoClient
    /\ chat_rooms = << >>
    /\ heap = << >>
    /\ pc = [c \in Conns |-> "idle"]
    /\ peer = [c \in Conns |-> << >>]
    /\ data = [c \in Conns |-> << >>]
    /\ room_name = [c \in Conns |-> << >>]
    /\ operation_code = [c \in Conns |-> 0]
    /\ token = [c \in Conns |-> << >>]
    /\ reply = [c \in Conns |-> << >>]
    /\ upc = "recv"
    /\ udp_data = << >>
    /\ udp_addr = << >>
    /\ members = 0
    /\ idx = 0
    /\ packet = << >>
    /\ outbox = << >>
    /\ nDatagrams = 0

(* ----------------------- handle_tcp_connection ------------------------ *)

\* The port the peer's kernel gave the stream connection: a fresh one for
\* every connection.
EphemeralPort(c) == 40000 + c

\* start_server's accept loop: conn, addr = tcp_sock.accept(), and a new
\* thread running handle_tcp_connection(conn, addr).
Accept(c, env) ==
    /\ main = "accept"
    /\ c <= env.conns
    /\ pc[c] = "idle"
    /\ \A d \in Conns : d < c => pc[d] # "idle"
    /\ \E ip \in env.ips : peer' = [peer EXCEPT ![c] = <<ip, EphemeralPort(c)>>]
    /\ pc' = [pc EXCEPT ![c] = "recv"]
    /\ UNCHANGED <<relay, process, client>>
    /\ UNCHANGED <<registry, data, room_name, operation_code, token, reply>>

\* A parsing that raises nothing on data of fewer than three bytes.
ParseOkAnyLength(d) == Utf8Valid(Slice(d, 3, 3 + d[1]))

\* Whether the handler's parsing lines raise nothing on data d.
ParseOk(d) == Len(d) >= 3 /\ Utf8Valid(Slice(d, 3, 3 + d[1]))

\* data[3:3 + room_name_size].decode('utf-8')
ParsedRoomName(d) == Utf8Decode(Slice(d, 3, 3 + d[1]))

\* conn.sendall(msg) and the finally clause's conn.close().  sendall raises
\* when the client has gone; the exception is printed and the connection
\* closed all the same.
SendAndClose(c, msg, env) ==
    /\ \E ok \in env.sendall :
        reply' = [reply EXCEPT ![c] = IF ok THEN Append(@, msg) ELSE @]
    /\ pc' = [pc EXCEPT ![c] = "closed"]

\* The finally clause's conn.close() with nothing sent.
Close(c) ==
    /\ pc' = [pc EXCEPT ![c] = "closed"]
    /\ UNCHANGED reply

\* conn.recv(BUFFER_SIZE) on a connection whose client sends nothing and
\* keeps it open: the accepted socket has no timeout, the call does not
\* return and the thread stays in it.
RecvBlocks(c) ==
    /\ pc' = [pc EXCEPT ![c] = "recv_blocked"]
    /\ UNCHANGED <<data, room_name, operation_code, reply>>

\* data = conn.recv(BUFFER_SIZE), the parsing, the branch on the operation
\* code and the test of chat_rooms that follows it (the statements before
\* that test touch nothing shared).  Empty data returns; an exception
\* (IndexError, UnicodeDecodeError) and an operation code other than 1 and
\* 2 reach conn.close() with nothing sent.
Recv(c, env) ==
    /\ pc[c] = "recv"
    /\ \E s \in env.silent :
        IF s THEN RecvBlocks(c)
        ELSE \E d \in env.frames :
        LET got == Slice(d, 0, BUFFER_SIZE)
        IN  /\ data' = [data EXCEPT ![c] = got]
            /\ IF got = << >> \/ ~ParseOk(got)
               THEN /\ Close(c)
                    /\ UNCHANGED <<room_name, operation_code>>
               ELSE LET rn == ParsedRoomName(got)
                        op == got[2]
                    IN  /\ room_name' = [room_name EXCEPT ![c] = rn]
                        /\ operation_code' = [operation_code EXCEPT ![c] = op]
                        /\ IF op = 1
                           THEN \* if room_name not in chat_rooms:
                                IF rn \notin DOMAIN chat_rooms
                                THEN /\ pc' = [pc EXCEPT ![c] = "create_assign"]
                                     /\ UNCHANGED reply
                                ELSE SendAndClose(c, RoomAlreadyExists, env)
                           ELSE IF op = 2
                           THEN \* if room_name in chat_rooms:
                                IF rn \in DOMAIN chat_rooms
                                THEN /\ pc' = [pc EXCEPT ![c] = "join_token"]
                                     /\ UNCHANGED reply
                                ELSE SendAndClose(c, RoomNotFound, env)
                           ELSE Close(c)
    /\ UNCHANGED <<relay, process, client>>
    /\ UNCHANGED <<registry, peer, token>>

\* chat_rooms[room_name] = []
CreateAssign(c) ==
    /\ pc[c] = "create_assign"
    /\ heap' = Append(heap, << >>)
    /\ chat_rooms' = DictSet(chat_rooms, room_name[c], Len(heap) + 1)
    /\ pc' = [pc EXCEPT ![c] = "create_append"]
    /\ UNCHANGED <<relay, process, client>>
    /\ UNCHANGED <<peer, data, room_name, operation_code, token, reply>>

\* token = f"host_{addr[0]}".encode('utf-8')
\* chat_rooms[room_name].append((token, addr))
\* conn.sendall(b"Room created " + token)
\* When chat_rooms was cleared in between, chat_rooms[room_name] raises
\* KeyError, which is printed, and the connection is closed with no reply.
CreateAppend(c, env) ==
    /\ pc[c] = "create_append"
    /\ LET tok == HostToken(peer[c])
       IN  /\ token' = [token EXCEPT ![c] = tok]
           /\ IF room_name[c] \in DOMAIN chat_rooms
              THEN /\ heap' = ListAppend(heap, chat_rooms[room_name[c]],
                                         MemberEntry(tok, peer[c]))
                   /\ SendAndClose(c, RoomCreated \o tok, env)
              ELSE /\ heap' = heap
                   /\ Close(c)
    /\ UNCHANGED <<relay, process, client>>
    /\ UNCHANGED <<chat_rooms, peer, data, room_name, operation_code>>

\* token = f"guest_{addr[0]}_{len(chat_rooms[room_name])}".encode('utf-8')
\* (KeyError when chat_rooms was cleared in between: closed with no reply.)
JoinToken(c) ==
    /\ pc[c] = "join_token"
    /\ IF room_name[c] \in DOMAIN chat_rooms
       THEN /\ token' = [token EXCEPT ![c] =
                            GuestToken(peer[c], Len(Members(room_name[c])))]
            /\ pc' = [pc EXCEPT ![c] = "join_append"]
       ELSE /\ token' = token
            /\ pc' = [pc EXCEPT ![c] = "closed"]
    /\ UNCHANGED <<relay, process, client>>
    /\ UNCHANGED <<registry, peer, data, room_name, operation_code, reply>>

\* chat_rooms[room_name].append((token, addr))
\* conn.sendall(b"Joined room " + token)
\* (KeyError when chat_rooms was cleared in between: closed with no reply.)
JoinAppend(c, env) ==
    /\ pc[c] = "join_append"
    /\ IF room_name[c] \in DOMAIN chat_rooms
       THEN /\ heap' = ListAppend(heap, chat_rooms[room_name[c]],
                                  MemberEntry(token[c], peer[c]))
            /\ SendAndClose(c, JoinedRoom \o token[c], env)
       ELSE /\ heap' = heap
            /\ Close(c)
    /\ UNCHANGED <<relay, process, client>>
    /\ UNCHANGED <<chat_rooms, peer, data, room_name, operation_code, token>>

\* One step of the handler thread of connection c.
Handler(c, env) ==
    \/ Recv(c, env)
    \/ CreateAssign(c)
    \/ CreateAppend(c, env)
    \/ JoinToken(c)
    \/ JoinAppend(c, env)

(* -------------------------- udp_chat_handler -------------------------- *)

\* The source addresses datagrams arrive from: the client of the first
\* connection when it bound its datagram socket to the port of its stream
\* connection, and a client that bound another port.
SrcAddrs == {IP1} \X {EphemeralPort(1), 50000}

\* room_name, sender_token and message as the relay slices them from data.
DgRoomBytes(d) == Slice(d, 2, 2 + d[1])
DgSenderToken(d) == Slice(d, 2 + d[1], 2 + d[1] + d[2])
DgMessageBytes(d) == SliceFrom(d, 2 + d[1] + d[2])

\* Whether the relay's parsing and printing lines raise nothing on data d.
DgParseOk(d) ==
    /\ Len(d) >= 2
    /\ Utf8Valid(DgRoomBytes(d))
    /\ Utf8Valid(DgMessageBytes(d))
    /\ Utf8Valid(DgSenderToken(d))

DgRoomName(d) == Utf8Decode(DgRoomBytes(d))
DgMessage(d) == Utf8Decode(DgMessageBytes(d))

\* The packet the relay builds for the members of the room.
OutPacket(d) ==
    <<Len(DgRoomName(d)), Len(DgSenderToken(d))>>
        \o Utf8Encode(DgRoomName(d)) \o DgSenderToken(d) \o Utf8Encode(DgMessage(d))

\* The tokens in the member lists of the rooms of chat_rooms.
RegistryTokens ==
    UNION { { heap[chat_rooms[r]][i][1] : i \in 1..Len(heap[chat_rooms[r]]) } :
            r \in DOMAIN chat_rooms }

\* The chat frames a client builds, carrying a token of the registry or a
\* token nobody was given.
ChatFrames ==
    { ChatFrame(n, tok, msg) :
        n \in RoomNameBytes, tok \in RegistryTokens \cup {BogusToken},
        msg \in MessageBytes }

\* The chat frames of the members for room "a" with an empty message.
EmptyMessageFrames == { ChatFrame(<<97>>, tok, << >>) : tok \in RegistryTokens }

\* The datagrams that arrive: chat frames, chat frames with an empty
\* message, and the latter cut off after the room name.
Datagrams ==
    ChatFrames \cup EmptyMessageFrames \cup { Slice(d, 0, 3) : d \in EmptyMessageFrames }

\* udp_sock.sendto(pkt, to).  When it raises, the exception is printed
\* and the loop goes on as it does after a send.
SendTo(pkt, to) == [pkt |-> pkt, to |-> to]

\* A relay that drops a datagram for a room it does not find.
NotFoundSilent(src) == << >>

\* udp_sock.sendto(b"Room not found", addr): the sendto calls the relay
\* makes for a datagram whose room is not in chat_rooms.
NotFoundReply(src) == <<SendTo(RoomNotFound, src)>>

\* A fan-out that sends to the source address of the datagram.
MemberAddrSrc(list, i) == udp_addr

\* A fan-out that sends every copy to the first member.
MemberAddrFirst(list, i) == list[1][2]

\* The address the fan-out loop sends to for entry i of the list.
MemberAddr(list, i) == list[i][2]

\* A relay whose loop ends with the first exception it prints.
LoopEnds == "exited"

\* Where the relay stands after the handler of lines 117-119 printed an
\* exception: at the loop test and, shutdown_event not being set, at the
\* next recvfrom.
AfterError == "recv"

\* data, addr = udp_sock.recvfrom(BUFFER_SIZE), the parsing, the prints and
\* the test of chat_rooms, for datagram d from address src (the statements
\* before that test touch nothing shared).  An exception (IndexError,
\* UnicodeDecodeError) is printed by the outer handler and the loop goes on
\* to the next recvfrom.
\*   if room_name in chat_rooms: members = chat_rooms[room_name], packet
\*   else: udp_sock.sendto(b"Room not found", addr)
URecvOf(d, src) ==
    /\ upc = "recv"
    /\ ~shutdown_event
    /\ nDatagrams < MaxDatagrams
    /\ \E got \in {Slice(d, 0, BUFFER_SIZE)} :
            /\ udp_data' = got
            /\ udp_addr' = src
            /\ errors' = IF DgParseOk(got) THEN {} ELSE {<<"parse", 0>>}
            /\ IF ~DgParseOk(got)
               THEN /\ upc' = AfterError
                    /\ members' = 0
                    /\ packet' = << >>
                    /\ outbox' = << >>
               ELSE IF DgRoomName(got) \in DOMAIN chat_rooms
               THEN /\ upc' = "send"
                    /\ members' = chat_rooms[DgRoomName(got)]
                    /\ packet' = OutPacket(got)
                    /\ outbox' = << >>
               ELSE /\ upc' = "recv"
                    /\ members' = 0
                    /\ packet' = << >>
                    /\ outbox' = NotFoundReply(src)
    /\ nDatagrams' = nDatagrams + 1
    /\ idx' = 0
    /\ UNCHANGED <<registry, handlers, process, client>>

\* One pass of the while loop, for any datagram that arrives.
URecv ==
    \E d \in Datagrams, src \in SrcAddrs : URecvOf(d, src)

\* A fan-out loop that skips the entries carrying the sender's token.
USendSkipSender ==
    /\ upc = "send"
    /\ idx < Len(heap[members])
    /\ outbox' = IF heap[members][idx + 1][1] = DgSenderToken(udp_data)
                 THEN outbox
                 ELSE Append(outbox, SendTo(packet, MemberAddr(heap[members], idx + 1)))
    /\ idx' = idx + 1
    /\ UNCHANGED <<registry, handlers, upc, udp_data, udp_addr, members, packet,
                   nDatagrams, errors, process, client>>

\* A relay that goes back to recvfrom while entries of the list are still
\* to be sent to.
UDoneEarly ==
    /\ upc = "send"
    /\ upc' = "recv"
    /\ UNCHANGED <<registry, handlers, udp_data, udp_addr, members, idx, packet,
                   outbox, nDatagrams, errors, process, client>>

\* A fan-out loop that records the source address of the datagram as the
\* address of the entries that carry the sender's token.
USendRebinds ==
    /\ upc = "send"
    /\ idx < Len(heap[members])
    /\ heap' = [heap EXCEPT ![members] =
                    [i \in 1..Len(@) |->
                        IF @[i][1] = DgSenderToken(udp_data)
                        THEN <<@[i][1], udp_addr>>
                        ELSE @[i]]]
    /\ outbox' = Append(outbox, [pkt |-> packet, to |-> heap'[members][idx + 1][2]])
    /\ idx' = idx + 1
    /\ UNCHANGED <<chat_rooms, handlers, upc, udp_data, udp_addr, members, packet,
                   nDatagrams, errors, process, client>>

\* A fan-out loop that waits at every send until no admission handler is
\* between accept and close.
USendWhenHandlersIdle ==
    /\ upc = "send"
    /\ idx < Len(heap[members])
    /\ \A c \in Conns : pc[c] \in {"idle", "closed"}
    /\ outbox' = Append(outbox, SendTo(packet, MemberAddr(heap[members], idx + 1)))
    /\ idx' = idx + 1
    /\ UNCHANGED <<registry, handlers, upc, udp_data, udp_addr, members, packet,
                   nDatagrams, errors, process, client>>

\* for member_token, member_addr in members: udp_sock.sendto(packet,
\* member_addr), an exception of which is printed and the loop goes on.
\* The list iterator reads the list's current length at every step.
USend ==
    /\ upc = "send"
    /\ idx < Len(heap[members])
    /\ outbox' = Append(outbox, SendTo(packet, MemberAddr(heap[members], idx + 1)))
    /\ idx' = idx + 1
    /\ UNCHANGED <<registry, handlers, upc, udp_data, udp_addr, members, packet,
                   nDatagrams, errors, process, client>>

\* The list iterator is exhausted: back to the while loop's recvfrom.
UDone ==
    /\ upc = "send"
    /\ idx >= Len(heap[members])
    /\ upc' = "recv"
    /\ UNCHANGED <<registry, handlers, udp_data, udp_addr, members, idx, packet,
                   outbox, nDatagrams, errors, process, client>>

Relay ==
    \/ URecv
    \/ USend
    \/ UDone

\* A fan-out in which an exception of sendto ends the loop over the
\* members: the handler of lines 117-119 prints it.
USendFailsAborts ==
    /\ upc = "send"
    /\ idx < Len(heap[members])
    /\ errors' = errors \cup {<<"send", idx + 1>>}
    /\ upc' = "recv"
    /\ UNCHANGED <<registry, handlers, udp_data, udp_addr, members, idx, packet,
                   outbox, nDatagrams, process, client>>

\* udp_sock.sendto(packet, member_addr) raises: the handler of lines
\* 109-110 prints the exception and the for loop goes on to the next
\* entry.
USendFails ==
    /\ upc = "send"
    /\ idx < Len(heap[members])
    /\ errors' = errors \cup {<<"send", idx + 1>>}
    /\ idx' = idx + 1
    /\ UNCHANGED <<registry, handlers, upc, udp_data, udp_addr, members, packet,
                   outbox, nDatagrams, process, client>>

\* udp_sock.recvfrom raises an OSError that is no timeout: the handler of
\* lines 117-119 prints it.  (A timeout, lines 115-116, changes nothing.)
URecvFails ==
    /\ upc = "recv"
    /\ ~shutdown_event
    /\ nDatagrams < MaxDatagrams
    /\ errors' = {<<"recvfrom", 0>>}
    /\ upc' = AfterError
    /\ nDatagrams' = nDatagrams + 1
    /\ UNCHANGED <<registry, handlers, udp_data, udp_addr, members, idx, packet,
                   outbox, process, client>>

\* A datagram that parses and names no room of chat_rooms, and
\* udp_sock.sendto(b"Room not found", addr) raises: the handler of lines
\* 117-119 prints the exception.
UReplyFails ==
    /\ upc = "recv"
    /\ ~shutdown_event
    /\ nDatagrams < MaxDatagrams
    /\ \E d \in Datagrams, src \in SrcAddrs :
        \E got \in {Slice(d, 0, BUFFER_SIZE)} :
            /\ DgParseOk(got)
            /\ DgRoomName(got) \notin DOMAIN chat_rooms
            /\ udp_data' = got
            /\ udp_addr' = src
    /\ errors' = {<<"sendto", 0>>}
    /\ upc' = AfterError
    /\ members' = 0
    /\ packet' = << >>
    /\ outbox' = << >>
    /\ nDatagrams' = nDatagrams + 1
    /\ idx' = 0
    /\ UNCHANGED <<registry, handlers, process, client>>

\* The exceptions the relay's socket calls raise.
RelayFaults ==
    \/ USendFails
    \/ URecvFails
    \/ UReplyFails

(* ------------------- start_server and cleanup_server ------------------ *)

\* The process before start_server has bound the stream socket: no relay
\* thread yet.
InitBoot ==
    /\ errors = {}
    /\ shutdown_event = FALSE
    /\ main = "start"
    /\ exit_code = << >>
    /\ client = NoClient
    /\ chat_rooms = << >>
    /\ heap = << >>
    /\ pc = [c \in Conns |-> "idle"]
    /\ peer = [c \in Conns |-> << >>]
    /\ data = [c \in Conns |-> << >>]
    /\ room_name = [c \in Conns |-> << >>]
    /\ operation_code = [c \in Conns |-> 0]
    /\ token = [c \in Conns |-> << >>]
    /\ reply = [c \in Conns |-> << >>]
    /\ upc = "unstarted"
    /\ udp_data = << >>
    /\ udp_addr = << >>
    /\ members = 0
    /\ idx = 0
    /\ packet = << >>
    /\ outbox = << >>
    /\ nDatagrams = 0

\* cleanup_server: shutdown_event.set(), tcp_sock.close(),
\* chat_rooms.clear(), clients.clear() and sys.exit(0), which raises
\* SystemExit(0) in the main thread.  The handler threads and the relay
\* thread are not joined before the dictionary is cleared.
CleanupServer(next) ==
    /\ shutdown_event' = TRUE
    /\ chat_rooms' = << >>
    /\ exit_code' = <<0>>
    /\ main' = next
    /\ UNCHANGED <<heap, handlers, relay, client>>

\* tcp_sock.bind(('0.0.0.0', SERVER_TCP_PORT)) and listen, the signal
\* handlers, and the start of the relay thread.  When bind raises (the port
\* is in use), "Server error" is printed and the finally clause follows.
Bind ==
    /\ main = "start"
    /\ \E ok \in BOOLEAN :
        /\ main' = IF ok THEN "accept" ELSE "finally"
        /\ upc' = IF ok THEN "recv" ELSE upc
    /\ UNCHANGED <<registry, handlers, udp_data, udp_addr, members, idx, packet,
                   outbox, nDatagrams, errors, shutdown_event, exit_code, client>>

\* SIGINT or SIGTERM while the main thread is in its accept loop: the
\* signal handler runs cleanup_server, whose SystemExit leaves the loop
\* for start_server's finally clause.
Signal ==
    /\ main = "accept"
    /\ CleanupServer("finally")

\* start_server's finally clause: cleanup_server once more; its
\* SystemExit(0) ends the main thread.
Finally ==
    /\ main = "finally"
    /\ CleanupServer("exited")

\* The relay loop's test while not shutdown_event.is_set() fails: the
\* finally clause closes the datagram socket and the thread ends.
RelayExit ==
    /\ upc = "recv"
    /\ shutdown_event
    /\ upc' = "exited"
    /\ UNCHANGED <<registry, handlers, udp_data, udp_addr, members, idx, packet,
                   outbox, nDatagrams, errors, process, client>>

(* ----------------------- client.py: tcp_connect ---------------------- *)

\* "Room created" and "Joined room", the texts the client looks for.
StrRoomCreated == <<82, 111, 111, 109, 32, 99, 114, 101, 97, 116, 101, 100>>
StrJoinedRoom == <<74, 111, 105, 110, 101, 100, 32, 114, 111, 111, 109>>

\* sub in s, for a sub that is not empty
Contains(s, sub) ==
    \E i \in 0..(Len(s) - Len(sub)) :
        s[i + 1] = sub[1] /\ SubSeq(s, i + 1, i + Len(sub)) = sub

\* str.isspace() of one character, for code points below 256.
IsSpace(cp) == cp \in {9, 10, 11, 12, 13, 28, 29, 30, 31, 32, 133, 160}

\* The index of the last character of s[1..i] that is no whitespace, 0
\* when there is none.
RECURSIVE FieldEnd(_, _)
FieldEnd(s, i) ==
    IF i = 0 \/ ~IsSpace(s[i]) THEN i ELSE FieldEnd(s, i - 1)

\* The index at which the run of characters that are no whitespace and
\* that ends at i begins.
RECURSIVE FieldStart(_, _)
FieldStart(s, i) ==
    IF i = 0 \/ IsSpace(s[i]) THEN i + 1 ELSE FieldStart(s, i - 1)

\* s.split()[-1] of a str with a character that is no whitespace: the last
\* run of characters that are no whitespace.
LastField(s) ==
    LET last == FieldEnd(s, Len(s))
    IN  SubSeq(s, FieldStart(s, last), last)

\* What tcp_connect returns as its token for the bytes its recv returned
\* (b"" when the server closed the connection with no reply): <<token>>,
\* or << >> for None.  The replies of the server are valid UTF-8 and
\* arrive in one piece.
TcpConnectToken(response) ==
    LET Result(response_str) ==
            IF \/ Contains(response_str, StrRoomCreated)
               \/ Contains(response_str, StrJoinedRoom)
            THEN <<Utf8Encode(LastField(response_str))>>
            ELSE << >>
    IN  Result(Utf8Decode(response))

\* start_client's if token: udp_chat is run for a token that is neither
\* None nor empty.
StartsChat(result) == result # << >> /\ result[1] # << >>

(* ------------------------- client.py: udp_chat ------------------------ *)

\* The ASCII and Latin-1 part of str.lower().
LowerPoint(cp) ==
    IF cp \in 65..90 \/ (cp \in 192..222 /\ cp # 215) THEN cp + 32 ELSE cp

Lower(s) == [i \in 1..Len(s) |-> LowerPoint(s[i])]

\* '/quit'
StrQuit == <<47, 113, 117, 105, 116>>

\* The lines input("Message: ") returns: "", "hi", "\u00e9", "/quit" and
\* "/Quit".
InputLines ==
    { << >>, <<104, 105>>, <<233>>, StrQuit, <<47, 81, 117, 105, 116>> }

\* The tokens tcp_connect returns to the clients of a room: the host's and
\* the first guest's.
ClientTokens ==
    { HostToken(<<IP1, EphemeralPort(1)>>), GuestToken(<<IP1, EphemeralPort(2)>>, 1) }

\* What arrives at the socket of a client with token own in room n (bytes):
\* chat frames of the room with the client's own token and with the tokens
\* of others, with the messages "hi", "\u00e9" and "", a frame whose message is
\* not UTF-8, the relay's b"Room not found", one byte, and no byte.
ClientArrivals(own, n) ==
    { ChatFrame(n, tok, msg) :
        tok \in ClientTokens \cup {BogusToken},
        msg \in { <<104, 105>>, <<195, 169>>, << >> } }
    \cup { ChatFrame(n, tok, <<255>>) : tok \in ClientTokens \ {own} }
    \cup { RoomNotFound, <<1>>, << >> }

\* A reader that displays every datagram.
NotOwnAlways(token_received, own) == TRUE

\* if token_received != token
NotOwn(token_received, own) == token_received # own

\* f"\r[{room_name_received}] {token_received.decode('utf-8')}: {message}"
DisplayLine(room, tok, msg) ==
    <<13, 91>> \o room \o <<93, 32>> \o Utf8Decode(tok) \o <<58, 32>> \o msg

\* Whether lines 101-105 raise nothing on data d: the two length bytes are
\* there and the room name and the message decode.
ClientParseOk(d) ==
    /\ Len(d) >= 2
    /\ Utf8Valid(DgRoomBytes(d))
    /\ Utf8Valid(DgMessageBytes(d))

\* udp_chat after the socket is bound, receive_task is created and the
\* writer awaits its first input: the reader has passed its loop test and
\* awaits udp_sock.recv in the executor.
InitClient ==
    /\ errors = {}
    /\ shutdown_event = FALSE
    /\ main = "accept"
    /\ exit_code = << >>
    /\ chat_rooms = << >>
    /\ heap = << >>
    /\ pc = [c \in Conns |-> "idle"]
    /\ peer = [c \in Conns |-> << >>]
    /\ data = [c \in Conns |-> << >>]
    /\ room_name = [c \in Conns |-> << >>]
    /\ operation_code = [c \in Conns |-> 0]
    /\ token = [c \in Conns |-> << >>]
    /\ reply = [c \in Conns |-> << >>]
    /\ upc = "recv"
    /\ udp_data = << >>
    /\ udp_addr = << >>
    /\ members = 0
    /\ idx = 0
    /\ packet = << >>
    /\ outbox = << >>
    /\ nDatagrams = 0
    /\ \E tok \in ClientTokens, n \in RoomNameBytes :
        client = [NoClient EXCEPT !.reader = "recv", !.writer = "input",
                                  !.token = tok, !.room_name = Utf8Decode(n),
                                  !.udp_sock = "open"]

\* receive_messages, from the return of the awaited udp_sock.recv to the
\* next await: the parsing, the test of the token, the print; an exception
\* of the parsing or of the print is reported ("Error receiving message")
\* and the loop goes on.  shutdown_event is not set here: udp_chat sets it
\* together with the cancellation only.
ReaderRecv ==
    /\ client.reader = "recv"
    /\ ~client.cancelled
    /\ client.nArrivals < MaxArrivals
    /\ \E d \in ClientArrivals(client.token, Utf8Encode(client.room_name)) :
        \E got \in {Slice(d, 0, BUFFER_SIZE)} :
            client' =
                [client EXCEPT
                    !.data = got,
                    !.nArrivals = @ + 1,
                    !.shown =
                        IF /\ got # << >>
                           /\ ClientParseOk(got)
                           /\ NotOwn(DgSenderToken(got), client.token)
                           /\ Utf8Valid(DgSenderToken(got))
                        THEN Append(@, DisplayLine(DgRoomName(got),
                                                   DgSenderToken(got),
                                                   DgMessage(got)))
                        ELSE @,
                    !.errors =
                        IF /\ got # << >>
                           /\ \/ ~ClientParseOk(got)
                              \/ /\ NotOwn(DgSenderToken(got), client.token)
                                 /\ ~Utf8Valid(DgSenderToken(got))
                        THEN @ + 1
                        ELSE @]
    /\ UNCHANGED <<registry, handlers, relay, process>>

\* A reader that swallows the cancellation and awaits the next datagram.
ReaderIgnoresCancel ==
    /\ client.reader = "recv"
    /\ client.cancelled
    /\ client' = [client EXCEPT !.cancelled = FALSE]
    /\ UNCHANGED <<registry, handlers, relay, process>>

\* The cancellation reaches the reader at its await: CancelledError is
\* raised there.  It leaves the coroutine (it is no Exception since Python
\* 3.8), or it is caught by except Exception, nothing is printed because
\* shutdown_event is set, and the loop test ends the coroutine.
ReaderCancelled ==
    /\ client.reader = "recv"
    /\ client.cancelled
    /\ client' = [client EXCEPT !.reader = "done"]
    /\ UNCHANGED <<registry, handlers, relay, process>>

\* One pass of the writer loop, from the return of the awaited input() to
\* the next await: '/quit' in any letter case leaves the loop for the
\* finally clause; any other line is encoded into a frame and sent.
WriterInput ==
    /\ client.writer = "input"
    /\ client.nInputs < MaxInputs
    /\ \E m \in InputLines :
        client' =
            [client EXCEPT
                !.message = m,
                !.nInputs = @ + 1,
                !.writer = IF Lower(m) = StrQuit THEN "finally" ELSE "input",
                !.sent =
                    IF Lower(m) # StrQuit
                    THEN Append(@, ChatFrame(Utf8Encode(client.room_name),
                                             client.token, Utf8Encode(m)))
                    ELSE @]
    /\ UNCHANGED <<registry, handlers, relay, process>>

\* The finally clause up to its await: shutdown_event.set() and
\* receive_task.cancel().
WriterCancel ==
    /\ client.writer = "finally"
    /\ client' = [client EXCEPT !.shutdown_event = TRUE, !.cancelled = TRUE,
                                !.writer = "await"]
    /\ UNCHANGED <<registry, handlers, relay, process>>

\* await receive_task returns or raises CancelledError, which is passed
\* over: udp_sock.close() and udp_chat returns.
WriterClose ==
    /\ client.writer = "await"
    /\ client.reader = "done"
    /\ client' = [client EXCEPT !.udp_sock = "closed", !.writer = "done"]
    /\ UNCHANGED <<registry, handlers, relay, process>>

(* --------------------------- specifications --------------------------- *)

\* No handler thread other than that of c is between accept and close.
Alone(c) == \A d \in Conns \ {c} : pc[d] \in {"idle", "closed"}

\* The admission handlers, running concurrently.
NextAdmission ==
    \/ \E c \in Conns : Accept(c, AdmissionEnv)
    \/ \E c \in Conns : Handler(c, AdmissionEnv)

\* The admission handlers, one connection handled after another.
NextSeq ==
    \/ \E c \in Conns : Alone(c) /\ Accept(c, AdmissionEnv)
    \/ \E c \in Conns : Alone(c) /\ Handler(c, AdmissionEnv)

\* The handler threads and the relay loop, running concurrently.
Next ==
    \/ \E c \in Conns : Accept(c, ChatEnv)
    \/ \E c \in Conns : Handler(c, ChatEnv)
    \/ Relay

\* The admission handlers, running concurrently, with clients that do not
\* keep to the protocol.
NextProtocol ==
    \/ \E c \in Conns : Accept(c, ProtocolEnv)
    \/ \E c \in Conns : Handler(c, ProtocolEnv)

\* The whole life of the server process: start, service, signal.
NextLifecycle ==
    \/ Bind
    \/ Signal
    \/ Finally
    \/ RelayExit
    \/ \E c \in Conns : Accept(c, ChatEnv)
    \/ \E c \in Conns : Handler(c, ChatEnv)
    \/ Relay

\* The clients of a chat, some of which connect and send nothing.
ShutdownEnv == [ChatEnv EXCEPT !.silent = BOOLEAN]

\* The life of the server process with clients that connect and send
\* nothing.
NextShutdown ==
    \/ Bind
    \/ Signal
    \/ Finally
    \/ RelayExit
    \/ \E c \in Conns : Accept(c, ShutdownEnv)
    \/ \E c \in Conns : Handler(c, ShutdownEnv)
    \/ Relay

\* The admissions, one after another, and the relay loop with socket calls
\* that raise.
NextFaults ==
    \/ \E c \in Conns : Alone(c) /\ Accept(c, ChatEnv)
    \/ \E c \in Conns : Alone(c) /\ Handler(c, ChatEnv)
    \/ Relay
    \/ RelayFaults

\* The two tasks of udp_chat on the client's event loop.
NextClient ==
    \/ ReaderRecv
    \/ ReaderCancelled
    \/ WriterInput
    \/ WriterCancel
    \/ WriterClose

Spec == Init /\ [][Next]_vars

SpecAdmission == Init /\ [][NextAdmission]_vars

SpecSeq == Init /\ [][NextSeq]_vars

SpecProtocol == Init /\ [][NextProtocol]_vars

SpecLifecycle == InitBoot /\ [][NextLifecycle]_vars

SpecShutdown == InitBoot /\ [][NextShutdown]_vars

SpecFaults == Init /\ [][NextFaults]_vars

SpecClient == InitClient /\ [][NextClient]_vars

\* The event loop runs every callback that is ready: the steps that do not
\* wait for the user or for the network are taken.
SpecClientLive ==
    /\ InitClient
    /\ [][NextClient]_vars
    /\ WF_vars(ReaderCancelled)
    /\ WF_vars(WriterCancel)
    /\ WF_vars(WriterClose)

(* ------------------------------ properties ---------------------------- *)

\* No handler thread is between accept and close.
Quiescent == \A c \in Conns : pc[c] \in {"idle", "closed"}

\* Whether bytes b start with bytes p.
StartsWith(b, p) == Len(b) >= Len(p) /\ SubSeq(b, 1, Len(p)) = p

\* Whether tok is a token a CREATE mints.
IsHostToken(tok) == StartsWith(tok, StrHost)

\* Connection c was answered with a reply that starts with text.
Answered(c, text) == reply[c] # << >> /\ StartsWith(reply[c][1], text)

\* The tokens of a member list.
TokensOf(list) == { list[i][1] : i \in 1..Len(list) }

\* The relay has ended the fan-out of a datagram that named a room of
\* chat_rooms.
FanoutEnded == upc = "recv" /\ members # 0

\* The step that ends the fan-out loop.
FanoutEnds == upc = "send" /\ upc' = "recv"

\* C1: when the admissions are handled one after another, after each of
\* them every room of the registry has at least one member, its first
\* member is the one a CREATE of that room appended, with a host token, and
\* no other member has a host token.
C1_SeqRoomsHaveOneHostFirst ==
    Quiescent =>
        \A r \in DOMAIN chat_rooms :
            /\ Len(Members(r)) >= 1
            /\ IsHostToken(Members(r)[1][1])
            /\ \E c \in Conns :
                /\ operation_code[c] = 1
                /\ room_name[c] = r
                /\ Members(r)[1] = <<token[c], peer[c]>>
            /\ \A i \in 2..Len(Members(r)) : ~IsHostToken(Members(r)[i][1])

\* C1's case: a room that a CREATE and two JOINs, handled one after
\* another, have filled.
C1_Witness ==
    /\ Quiescent
    /\ \E r \in DOMAIN chat_rooms : Len(Members(r)) = 3

\* C2: when two CREATE requests for the same room name, the only requests
\* for that room, have both been answered, one is answered "Room created",
\* the other "Room already exists", and the room has exactly one member.
C2_OneCreateWins ==
    \A c, d \in Conns :
        ( /\ c # d
          /\ pc[c] = "closed" /\ pc[d] = "closed"
          /\ operation_code[c] = 1 /\ operation_code[d] = 1
          /\ room_name[c] = room_name[d]
          /\ reply[c] # << >> /\ reply[d] # << >>
          /\ \A e \in Conns \ {c, d} : room_name[e] # room_name[c] )
        => /\ Answered(c, RoomCreated) # Answered(d, RoomCreated)
           /\ Answered(c, RoomAlreadyExists) # Answered(d, RoomAlreadyExists)
           /\ Len(Members(room_name[c])) = 1

\* C3: no two members of the same room have the same token.
C3_TokensUniqueInRoom ==
    \A r \in DOMAIN chat_rooms :
        \A i, j \in 1..Len(Members(r)) :
            i # j => Members(r)[i][1] # Members(r)[j][1]

\* C4: at every point another thread can observe, a room name of the
\* registry maps to a member list with at least one member, whose first
\* member is the host.
C4_RoomNeverEmptyHostFirst ==
    \A r \in DOMAIN chat_rooms :
        /\ Len(Members(r)) >= 1
        /\ IsHostToken(Members(r)[1][1])

\* C5: when the admissions are handled one after another, the token of
\* every admitted member is in exactly one room of the registry.
C5_TokenInOneRoom ==
    Quiescent =>
        \A r1, r2 \in DOMAIN chat_rooms :
            r1 # r2 => TokensOf(Members(r1)) \cap TokensOf(Members(r2)) = {}

\* C6: a chat datagram that names a room of the registry with a token that
\* no member of that room has is fanned out to nobody.
C6_UnknownTokenNoFanout ==
    (members # 0 /\ DgSenderToken(udp_data) \notin TokensOf(heap[members]))
        => outbox = << >>

Received(c) == pc[c] = "recv" /\ pc'[c] \notin {"recv", "recv_blocked"}

\* C11: a CREATE that finds its room name in the registry is answered
\* "Room already exists", not a success reply, and closed at once, and its
\* handler changes neither the dictionary nor any member list.
C11_CreateExistingRefused ==
    [][\A c \in Conns :
        ( /\ Received(c)
          /\ operation_code'[c] = 1
          /\ room_name'[c] \in DOMAIN chat_rooms )
        => /\ pc'[c] = "closed"
           /\ chat_rooms' = chat_rooms
           /\ heap' = heap
           /\ reply'[c] = <<RoomAlreadyExists>>
           /\ ~StartsWith(reply'[c][1], RoomCreated)]_vars

\* C11's case: a CREATE for an existing room has been answered "Room
\* already exists" and the room still has the one member it had.
C11_Witness ==
    \E c \in Conns :
        /\ pc[c] = "closed"
        /\ operation_code[c] = 1
        /\ reply[c] = <<RoomAlreadyExists>>
        /\ room_name[c] \in DOMAIN chat_rooms
        /\ Len(Members(room_name[c])) = 1
        /\ Members(room_name[c])[1][2] # peer[c]

\* C12: a JOIN that does not find its room name in the registry is
\* answered "Room not found", not a success reply, and closed at once, and
\* its handler changes neither the dictionary nor any member list (the room
\* is not created).
C12_JoinMissingRefused ==
    [][\A c \in Conns :
        ( /\ Received(c)
          /\ operation_code'[c] = 2
          /\ room_name'[c] \notin DOMAIN chat_rooms )
        => /\ pc'[c] = "closed"
           /\ chat_rooms' = chat_rooms
           /\ heap' = heap
           /\ room_name'[c] \notin DOMAIN chat_rooms'
           /\ reply'[c] = <<RoomNotFound>>
           /\ ~StartsWith(reply'[c][1], JoinedRoom)]_vars

\* C12's case: a JOIN for room "a" has been answered "Room not found"
\* while another room exists, and room "a" is still not in the registry.
C12_Witness ==
    \E c \in Conns :
        /\ pc[c] = "closed"
        /\ operation_code[c] = 2
        /\ reply[c] = <<RoomNotFound>>
        /\ room_name[c] = <<97>>
        /\ room_name[c] \notin DOMAIN chat_rooms
        /\ chat_rooms # << >>

\* C13: a handler that receives fewer than 3 bytes, an operation code
\* other than 1 and 2, or room-name bytes that are not UTF-8 closes the
\* connection at once, having changed neither the dictionary nor any
\* member list.
C13_ErrorLeavesRegistry ==
    [][\A c \in Conns :
        ( /\ Received(c)
          /\ \/ Len(data'[c]) < 3
             \/ data'[c][2] \notin {1, 2}
             \/ ~Utf8Valid(Slice(data'[c], 3, 3 + data'[c][1])) )
        => /\ pc'[c] = "closed"
           /\ chat_rooms' = chat_rooms
           /\ heap' = heap]_vars

\* C13's case: a room with its host, and two connections closed without
\* a reply: after a read of two bytes and after a room name that does not
\* decode.
C13_Witness ==
    \E r \in DOMAIN chat_rooms :
        /\ Len(Members(r)) = 1
        /\ \E c, d \in Conns :
            /\ pc[c] = "closed" /\ pc[d] = "closed"
            /\ reply[c] = << >> /\ reply[d] = << >>
            /\ Len(data[c]) = 2
            /\ Len(data[d]) > 3
            /\ ~Utf8Valid(Slice(data[d], 3, 3 + data[d][1]))

\* Connection c was answered with one of the two success replies.
Admitted(c) == Answered(c, RoomCreated) \/ Answered(c, JoinedRoom)

\* The member list entry the handler of connection c appends is in a list.
IsMember(c) ==
    \E id \in 1..Len(heap) :
        \E i \in 1..Len(heap[id]) : heap[id][i] = <<token[c], peer[c]>>

\* C14: a connection that delivered a frame with room_name_len 0 gets no
\* success reply and adds no member, and no room with the empty name is in
\* the registry.
C14_EmptyRoomNameRejected ==
    \A c \in Conns :
        (pc[c] = "closed" /\ Len(data[c]) >= 3 /\ data[c][1] = 0)
            => /\ ~Admitted(c)
               /\ ~IsMember(c)
               /\ << >> \notin DOMAIN chat_rooms

\* C15: a connection that delivered a frame of another length than
\* 3 + room_name_len gets no success reply and adds no member.
C15_InconsistentLengthRejected ==
    \A c \in Conns :
        (pc[c] = "closed" /\ Len(data[c]) >= 3 /\ Len(data[c]) # 3 + data[c][1])
            => /\ ~Admitted(c)
               /\ ~IsMember(c)

\* The datagram the relay received last is shorter than its two length
\* bytes announce.
ShortDatagram ==
    Len(udp_data) >= 2 /\ Len(udp_data) < 2 + udp_data[1] + udp_data[2]

\* C16: a datagram shorter than 2 + room_name_len + token_len is dropped:
\* the relay sends nothing to any member for it.
C16_ShortDatagramDropped ==
    ShortDatagram => (members = 0 \/ outbox = << >>)

\* C17: the packet the relay builds for a chat frame that is as long as
\* its length bytes announce and carries the token of a member of the room
\* it names is byte for byte the frame it received.
C17_OutboundEqualsInbound ==
    ( /\ members # 0
      /\ ~ShortDatagram
      /\ DgSenderToken(udp_data) \in TokensOf(heap[members]) )
    => packet = udp_data

\* C18: when the admissions are handled one after another, the step that
\* completes a CREATE from peer (ip, port) stores ("host_<ip>", (ip, port))
\* as the first member of the room and sends "Room created host_<ip>"; the
\* step that completes a JOIN into a room of n members appends
\* ("guest_<ip>_<n>", (ip, port)) as the last member and sends "Joined room
\* guest_<ip>_<n>" (nothing arrives when sendall raises).  The port is in
\* neither token.
C18_TokensFromIpAndCount ==
    [][\A c \in Conns :
        /\ (pc[c] = "create_append" /\ pc'[c] = "closed") =>
            LET tok == Utf8Encode(StrHost \o peer[c][1])
            IN  /\ heap'[chat_rooms'[room_name[c]]][1] = <<tok, peer[c]>>
                /\ reply'[c] \in {<< >>, <<RoomCreated \o tok>>}
        /\ (pc[c] = "join_append" /\ pc'[c] = "closed") =>
            LET n == Len(Members(room_name[c]))
                tok == Utf8Encode(StrGuest \o peer[c][1] \o <<95>> \o DecimalStr(n))
            IN  /\ heap'[chat_rooms'[room_name[c]]]
                      = Append(Members(room_name[c]), <<tok, peer[c]>>)
                /\ reply'[c] \in {<< >>, <<JoinedRoom \o tok>>}]_vars

\* C18's case: 10.0.0.1 was answered "Room created host_10.0.0.1" and
\* 10.0.0.2 "Joined room guest_10.0.0.2_1", and the room holds these two
\* tokens in this order.
C18_Witness ==
    \E c, d \in Conns :
        /\ reply[c] = <<RoomCreated \o StrHost \o IP1>>
        /\ reply[d] = <<JoinedRoom \o StrGuest \o IP2 \o <<95, 49>> >>
        /\ room_name[c] = room_name[d]
        /\ room_name[c] \in DOMAIN chat_rooms
        /\ Len(Members(room_name[c])) = 2
        /\ Members(room_name[c])[1][1] = StrHost \o IP1
        /\ Members(room_name[c])[2][1] = StrGuest \o IP2 \o <<95, 49>>

\* C19: when no thread can take a step any more, every connection the
\* accept loop took is closed: every handler has come to conn.close().
C19_EveryConnectionCloses ==
    (~ENABLED NextProtocol) => \A c \in Conns : pc[c] \in {"idle", "closed"}

\* What connection c delivered is an admission frame as long as its length
\* byte announces, with a room name of at least one byte that decodes.
DeliveredFrame(c) ==
    /\ Len(data[c]) >= 4
    /\ Len(data[c]) = 3 + data[c][1]
    /\ Utf8Valid(SliceFrom(data[c], 3))

\* C20: a connection that delivered a frame, whatever its operation code,
\* has exactly one reply when it is closed.
C20_OneReplyPerFrame ==
    \A c \in Conns :
        (pc[c] = "closed" /\ DeliveredFrame(c)) => Len(reply[c]) = 1

\* C21: for a datagram that parses and names a room that is not in the
\* registry the relay makes exactly one sendto, of "Room not found" to the
\* datagram's source address, starts no fan-out and changes neither the
\* dictionary nor any member list.
C21_UnknownRoomOneReply ==
    [][( /\ nDatagrams' # nDatagrams
         /\ DgParseOk(udp_data')
         /\ DgRoomName(udp_data') \notin DOMAIN chat_rooms )
       => /\ outbox' = <<[pkt |-> RoomNotFound, to |-> udp_addr']>>
          /\ upc' = "recv"
          /\ members' = 0
          /\ chat_rooms' = chat_rooms
          /\ heap' = heap]_vars

\* C21's case: room "a" has a member, a datagram for a room that does not
\* exist came from an address that is no member's, and the one sendto made
\* for it went to that address.
C21_Witness ==
    /\ upc = "recv"
    /\ members = 0
    /\ nDatagrams >= 1
    /\ DgRoomName(udp_data) \notin DOMAIN chat_rooms
    /\ <<97>> \in DOMAIN chat_rooms
    /\ Len(Members(<<97>>)) >= 1
    /\ \A i \in 1..Len(Members(<<97>>)) : Members(<<97>>)[i][2] # udp_addr
    /\ Len(outbox) = 1
    /\ outbox[1].to = udp_addr

\* The main thread has ended and no other thread of the process runs: the
\* process has exited.
ProcessExited ==
    /\ main = "exited"
    /\ upc \in {"unstarted", "exited"}
    /\ \A c \in Conns : pc[c] \in {"idle", "closed"}

\* bind raised: the main thread left start_server's try block before it
\* started the relay thread.
BindFailed == main \in {"finally", "exited"} /\ upc = "unstarted"

\* C22: once the shutdown has completed (the accept loop has ended, the
\* relay has closed its socket, every handler thread has ended), the
\* registry is empty.
C22_RegistryEmptyAfterShutdown ==
    ProcessExited => chat_rooms = << >>

\* C23: the process exits with a non-zero code when binding the stream
\* socket failed, and with 0 otherwise.
C23_ExitCodeTellsBindFailure ==
    main = "exited" =>
        IF BindFailed THEN exit_code # <<0>> ELSE exit_code = <<0>>

\* A handler thread between accept and close.
InFlight(c) ==
    pc[c] \in {"recv", "create_assign", "create_append", "join_token",
               "join_append"}

\* A chat frame for room "a" with an empty token and an empty message.
ProbeDatagram == <<1, 0, 97>>

\* C24: neither path waits for the other.  While a handler thread is
\* between accept and close, the relay loop can take its next step (receive
\* and process a datagram, make the next send of a fan-out, end the
\* fan-out); while the relay loop is in a fan-out, every handler thread
\* between accept and close can take its next step.
C24_PathsDoNotBlock ==
    /\ (\E c \in Conns : InFlight(c)) =>
        /\ upc = "send" => ENABLED (USend \/ UDone)
        /\ (upc = "recv" /\ nDatagrams < MaxDatagrams) =>
            \E src \in SrcAddrs : ENABLED URecvOf(ProbeDatagram, src)
    /\ upc = "send" =>
        \A c \in Conns : InFlight(c) => ENABLED Handler(c, ChatEnv)

\* C24's case: the relay is in the middle of a fan-out, one send made,
\* while a handler thread is in the middle of a JOIN of the room the relay
\* fans out to.
C24_Witness ==
    /\ upc = "send"
    /\ idx = 1
    /\ \E d \in Conns :
        /\ pc[d] = "join_append"
        /\ room_name[d] \in DOMAIN chat_rooms
        /\ chat_rooms[room_name[d]] = members


\* The step in which the client's reader handles a datagram.
ReaderHandles == client'.nArrivals = client.nArrivals + 1

\* The messages (str) of the chat frames that arrive at the client.
ArrivingMessages == { <<104, 105>>, <<233>>, << >> }

\* C25: the reader prints nothing for a datagram whose sender token is the
\* client's own, and for every other chat frame, built from room name n,
\* ASCII token tok and message m, it prints, after a carriage return, the
\* line "[n] tok: m".
C25_ReaderSkipsOwnShowsOthers ==
    [][ReaderHandles =>
        /\ (Len(client'.data) >= 2 /\ DgSenderToken(client'.data) = client.token)
                => client'.shown = client.shown
        /\ \A n \in RoomNameBytes, tok \in ClientTokens \cup {BogusToken},
              m \in ArrivingMessages :
            (client'.data = ChatFrame(n, tok, Utf8Encode(m)) /\ tok # client.token)
                => client'.shown =
                       Append(client.shown,
                              <<13, 91>> \o Utf8Decode(n) \o <<93, 32>> \o tok
                                  \o <<58, 32>> \o m)
    ]_vars

\* C25's case: two datagrams have arrived, a chat frame of another member,
\* which is on the screen, and then the echo of the client's own frame,
\* which is not.
C25_Witness ==
    /\ client.nArrivals = 2
    /\ Len(client.data) > 2
    /\ DgSenderToken(client.data) = client.token
    /\ Len(client.shown) = 1

\* The step in which the client's writer handles an input line.
WriterReads == client'.nInputs = client.nInputs + 1

\* The spellings of the quit command among the input lines.
QuitLines == { StrQuit, <<47, 81, 117, 105, 116>> }

\* C26: for an input line that is not empty and is not the quit command
\* the writer sends one chat frame with its room name and its token; for
\* an empty line and for the quit command it sends nothing, and the quit
\* command ends the writer loop.
C26_WriterSendsNonEmptyLines ==
    [][WriterReads =>
        LET m == client'.message
        IN  /\ IF m = << >> \/ m \in QuitLines
               THEN client'.sent = client.sent
               ELSE client'.sent =
                        Append(client.sent,
                               ChatFrame(Utf8Encode(client.room_name),
                                         client.token, Utf8Encode(m)))
            /\ client'.writer = IF m \in QuitLines THEN "finally" ELSE "input"
    ]_vars

\* Both tasks of udp_chat have ended and the datagram socket is closed.
ClientEnded ==
    /\ client.reader = "done"
    /\ client.writer = "done"
    /\ client.udp_sock = "closed"

\* C27: once the user has entered the quit command, the reader and the
\* writer eventually end and the datagram socket is closed.
C27_QuitEndsBothTasks ==
    (client.writer = "finally") ~> ClientEnded

\* C27's case: the client has ended and no datagram ever arrived: the
\* reader was waiting in its receive when the quit command came.
C27_Witness ==
    /\ ClientEnded
    /\ client.nArrivals = 0
    /\ client.message \in QuitLines

\* What the client of connection c reads from its stream socket once the
\* server has closed the connection.
Response(c) == IF reply[c] = << >> THEN << >> ELSE reply[c][1]

\* The step in which the handler of connection c closes the connection.
Closes(c) == pc[c] # "closed" /\ pc'[c] = "closed"

\* The handler of connection c appends an entry to the member list of its
\* room in this step.
AddsMember(c) ==
    /\ room_name[c] \in DOMAIN chat_rooms
    /\ Len(heap'[chat_rooms[room_name[c]]]) = Len(heap[chat_rooms[room_name[c]]]) + 1

\* The last entry of a list.
Last(list) == list[Len(list)]

FailedSends == { i \in 1..Len(heap[members]) : <<"send", i>> \in errors }

\* The indices 1..n that are not in the set failed, in order.
Remaining(n, failed) == SelectSeq([i \in 1..n |-> i], LAMBDA i : i \notin failed)

\* C29: when a fan-out ends, every entry of the member list was tried once:
\* the sendto calls that returned are, in the order of the list, those of
\* the entries whose sendto did not raise, each with the packet and the
\* entry's address; and a sendto that raises leaves the relay in its
\* fan-out or at its next recvfrom.
C29_FailedSendDoesNotStopFanout ==
    [][/\ FanoutEnds =>
            LET list == heap[members]
                sent == Remaining(Len(list), FailedSends)
            IN  /\ Len(outbox) = Len(sent)
                /\ \A k \in 1..Len(sent) :
                    outbox[k] = [pkt |-> packet, to |-> list[sent[k]][2]]
                /\ \A e \in errors : e[2] \in 1..Len(list)
       /\ (upc = "send" /\ errors' # errors) => upc' = "send"
    ]_vars

\* C29's case: a fan-out to a list of two entries has ended, the sendto
\* for the first entry raised and the second entry got the packet.
C29_Witness ==
    /\ FanoutEnded
    /\ Len(heap[members]) = 2
    /\ errors = {<<"send", 1>>}
    /\ outbox = <<[pkt |-> packet, to |-> heap[members][2][2]]>>

Extends(t, s) == Len(t) >= Len(s) /\ SubSeq(t, 1, Len(s)) = s

\* C31: no step removes a room or a member: every room of the registry is
\* still a room after the step, and its member sequence begins with the
\* member sequence it had before.
C31_MembersOnlyExtend ==
    [][\A r \in DOMAIN chat_rooms :
        /\ r \in DOMAIN chat_rooms'
        /\ Extends(heap'[chat_rooms'[r]], heap[chat_rooms[r]])
    ]_vars

\* The step in which the relay's recvfrom returns, or raises.
RelayReceives == nDatagrams' = nDatagrams + 1

\* The step of a fan-out in which a sendto returns.
RelaySends == upc = "send" /\ Len(outbox') = Len(outbox) + 1

\* C32: the relay sends the copies of a datagram before it receives the
\* next one.  It is at recvfrom only when the loop over the members of the
\* datagram received before has ended, with every entry tried; and every
\* packet a fan-out sends is the one built from the datagram received
\* last.
C32_FanoutBeforeNextReceive ==
    [][/\ RelayReceives => upc = "recv"
       /\ FanoutEnds =>
            Len(outbox) + Cardinality(FailedSends) = Len(heap[members])
       /\ RelaySends =>
            /\ udp_data' = udp_data
            /\ Last(outbox').pkt = OutPacket(udp_data)
    ]_vars

\* C32's case: the relay has received two datagrams, and has ended the
\* fan-out of the second, which a member of a room of two sent.
C32_Witness ==
    /\ FanoutEnded
    /\ nDatagrams = 2
    /\ Len(heap[members]) = 2
    /\ DgSenderToken(udp_data) \in TokensOf(heap[members])
    /\ Len(outbox) = 2
    /\ errors = {}

\* C33: no step changes an entry of a member list; the entry a handler
\* appends holds the peer address of the handler's stream connection; and
\* every packet of a fan-out goes to the address in the entry, which is
\* the peer address of the stream connection that admitted it.
C33_StoredAddressIsFixed ==
    [][/\ \A id \in 1..Len(heap) :
            \A i \in 1..Len(heap[id]) : heap'[id][i] = heap[id][i]
       /\ \A c \in Conns :
            (Closes(c) /\ AddsMember(c))
                => Last(heap'[chat_rooms[room_name[c]]])[2] = peer[c]
       /\ RelaySends =>
            \E c \in Conns :
                /\ pc[c] = "closed"
                /\ heap[members][idx + 1] = <<token[c], peer[c]>>
                /\ Last(outbox').to = peer[c]
    ]_vars

\* C33's case: a member's datagram came from another address than its
\* stream connection had, and the member's copy went to the address of
\* the stream connection, which is still the one in its entry.
C33_Witness ==
    /\ FanoutEnded
    /\ outbox # << >>
    /\ \E i \in 1..Len(heap[members]) :
        /\ heap[members][i][1] = DgSenderToken(udp_data)
        /\ udp_addr # heap[members][i][2]
        /\ \E c \in Conns : heap[members][i] = <<token[c], peer[c]>>
        /\ \E k \in 1..Len(outbox) : outbox[k].to = heap[members][i][2]
        /\ \A k \in 1..Len(outbox) : outbox[k].to # udp_addr

\* C34: every entry of a member list was appended by a handler whose
\* success reply with the entry's token was written to its connection.
C34_MemberOnlyIfReplyWritten ==
    \A id \in 1..Len(heap) :
        \A i \in 1..Len(heap[id]) :
            \E c \in Conns :
                /\ pc[c] = "closed"
                /\ peer[c] = heap[id][i][2]
                /\ reply[c] \in { <<RoomCreated \o heap[id][i][1]>>,
                                  <<JoinedRoom \o heap[id][i][1]>> }

\* cleanup_server has run: it has cleared chat_rooms.
Cleared == main \in {"finally", "exited"} /\ exit_code = <<0>>

\* C35: once cleanup_server has cleared the registry, no step adds a room
\* to it.
C35_RegistryStaysEmpty ==
    [][Cleared => chat_rooms' = << >>]_vars

\* C36: after the shutdown signal, when no thread of the server can take a
\* step any more, every thread has finished: the main thread, the relay
\* thread and every handler thread.
C36_AllThreadsFinish ==
    (shutdown_event /\ ~ENABLED NextShutdown) => ProcessExited

=========================================================================
